---- MODULE Spec2Model ----
(***************************************************************************)
(* Model of the telemetry dashboard front end:                             *)
(*   - TelemetryRenderer   (src/src/static/js/telemetryRenderer.js)        *)
(*   - PaceComparison      (src/src/static/js/paceComparisonOverlay.js)    *)
(* A JavaScript value that may be null, undefined or NaN is a record with  *)
(* a field kind; a number is Num(n).  Every operator that reads such a     *)
(* value spells out what the JavaScript operator does with it.             *)
(***************************************************************************)
EXTENDS Integers, Sequences, FiniteSets, TLC

VARIABLES
    \* ---- one call of TelemetryRenderer.getAdjacentPositions
    position,               \* argument
    total_cars,             \* argument
    num_adjacent_cars,      \* argument
    adjacentPositions,      \* the array returned (a sequence of integers)
    windowPc,               \* "call" before the call, "done" after it, "off"
    \* ---- one call of TelemetryRenderer.getRelevantRaceTableRows
    rowsData,               \* argument: the snapshot
    rowsPref,               \* g_pref_numAdjacentCars at the call
    relevantRows,           \* the rows returned
    rowsPc,                 \* "call", "done" or "off"
    \* ---- the TelemetryRenderer object and its page
    incomingData,           \* the snapshot of the last updateDashboard call
    g_pref_numAdjacentCars, \* the global preference read by that call
    telemetryTable,         \* rows of <tbody id="telemetry-data">
    indexByPosition,        \* this.indexByPosition
    columnHidden,           \* header cell hidden? for "DELTA" and "FUEL"
    raised,                 \* did the last updateDashboard call throw?
    \* ---- the PaceComparison object and its elements
    paceData,               \* the argument of the last update call
    prevDriver,             \* textContent of #paceComparisonPrev
    nextDriver,             \* textContent of #paceComparisonNext
    prevDelta,              \* #paceComparisonPrevDelta: text and classes
    nextDelta,              \* #paceComparisonNextDelta
    prevSectors,            \* #prevSector1..3
    nextSectors,            \* #nextSector1..3
    paceLogged,             \* did the last update call console.error?
    \* ---- the LapTimeTableWidget object and its table
    lapTimeHistory,         \* the argument of the last update call
    lapTimeTable,           \* rows of #lapTimeTable
    \* ---- one call of TelemetryRenderer.getPlayerPosition
    playerData,             \* argument: the snapshot
    returnedPosition,       \* the value returned
    playerPc,               \* "call", "done" or "off"
    \* ---- one call of TelemetryRenderer.renderTelemetryRow
    renderData,             \* argument: the table entry
    renderYear,             \* argument: gameYear
    renderLive,             \* argument: isLiveDataMode
    renderedRow,            \* the row returned, null if none
    renderPc,               \* "call", "done", "raised" or "off"
    \* ---- one DriverModalDataPopulator and the elements it creates
    modalData,              \* this.data
    navTabs,                \* the buttons createNavTabs returned
    tabContent,             \* the panes createTabContent returned
    ersTable,               \* rows of the table body of the ERS history pane
    navPc,                  \* createNavTabs: "call", "done" or "off"
    contentPc               \* createTabContent: "call", "done" or "off"

vars == << position, total_cars, num_adjacent_cars, adjacentPositions, windowPc,
           rowsData, rowsPref, relevantRows, rowsPc,
           incomingData, g_pref_numAdjacentCars, telemetryTable,
           indexByPosition, columnHidden, raised,
           paceData, prevDriver, nextDriver, prevDelta, nextDelta,
           prevSectors, nextSectors, paceLogged,
           lapTimeHistory, lapTimeTable,
           playerData, returnedPosition, playerPc,
           renderData, renderYear, renderLive, renderedRow, renderPc,
           modalData, navTabs, tabContent, ersTable, navPc, contentPc >>

windowVars == << position, total_cars, num_adjacent_cars, adjacentPositions,
                 windowPc >>

rowsVars == << rowsData, rowsPref, relevantRows, rowsPc >>

dashboardVars == << incomingData, g_pref_numAdjacentCars, telemetryTable,
                    indexByPosition, columnHidden, raised >>

paceVars == << paceData, prevDriver, nextDriver, prevDelta, nextDelta,
              prevSectors, nextSectors, paceLogged >>

lapVars == << lapTimeHistory, lapTimeTable >>

playerVars == << playerData, returnedPosition, playerPc >>

renderVars == << renderData, renderYear, renderLive, renderedRow, renderPc >>

modalVars == << modalData, navTabs, tabContent, ersTable, navPc, contentPc >>

-----------------------------------------------------------------------------
(* JavaScript values *)

Null == [kind |-> "null"]
Undefined == [kind |-> "undefined"]
NaN == [kind |-> "NaN"]
Num(n) == [kind |-> "number", n |-> n]
Arr(items) == [kind |-> "array", items |-> items]
Str(s) == [kind |-> "string", s |-> s]

IsNumber(v) == v.kind = "number"

Min(a, b) == IF a <= b THEN a ELSE b
Max(a, b) == IF a >= b THEN a ELSE b

\* Array.prototype.slice(start, end): a NaN start is 0, an undefined end is the
\* length, a negative index counts from the end, and both are clamped to
\* 0..length.
SliceIndex(v, len, dflt) ==
    IF v = Undefined THEN dflt
    ELSE IF ~IsNumber(v) THEN 0
    ELSE IF v.n < 0 THEN Max(len + v.n, 0)
    ELSE Min(v.n, len)

Slice(arr, start, end) ==
    LET len  == Len(arr)
        from == SliceIndex(start, len, 0)
        to   == SliceIndex(end, len, len)
    IN  IF from >= to THEN << >> ELSE SubSeq(arr, from + 1, to)

\* arr[i] for a 0-based index i: undefined outside the array.
At(arr, i) == IF i \in 0..(Len(arr) - 1) THEN Num(arr[i + 1]) ELSE Undefined

\* x - 1 for a value that may be undefined.
MinusOne(v) == IF IsNumber(v) THEN Num(v.n - 1) ELSE NaN

-----------------------------------------------------------------------------
(* Bounds of the model *)

MaxTotalCars == 20      \* total_cars of a getAdjacentPositions call: 0..20
MaxRadius == 4          \* num_adjacent_cars of such a call: 0..4
MaxRows == 4            \* rows of a getRelevantRaceTableRows argument: 0..4
MaxPref == 3            \* g_pref_numAdjacentCars at such a call: 0..3
MaxEntries == 2         \* rows of a snapshot given to updateDashboard: 0..2
MaxAdjacentCars == 1    \* g_pref_numAdjacentCars at updateDashboard: 0..1
MaxLaps == 6            \* laps of a lap-time history: 0..6

-----------------------------------------------------------------------------
(* The snapshots the backend may push.  A record is written with its fields *)
(* in one fixed order throughout the module.                                 *)

\* Row `slot` of n rows: every row but the player's reports its own slot as
\* position; the player's row reports playerPos.
Entry(slot, n, playerSlot, playerPos) ==
    [position   |-> IF slot = playerSlot THEN playerPos ELSE Num(slot),
     index      |-> n - slot,
     is_player  |-> slot = playerSlot,
     dnf_status |-> "",
     drs        |-> FALSE]

EntryLists(maxRows) ==
    { << >> } \cup
    UNION { { [slot \in 1..n |-> Entry(slot, n, 0, Null)] } \cup
            { [slot \in 1..n |-> Entry(slot, n, k, p)] :
                  k \in 1..n,
                  p \in { Num(q) : q \in 0..(n + 1) } \cup {Null} }
          : n \in 1..maxRows }

GameYears == {23, 24}

Snapshots(maxRows) ==
    [table_entries : EntryLists(maxRows),
     is_spectating : BOOLEAN,
     race_ended    : BOOLEAN,
     live_data     : BOOLEAN,
     f1_game_year  : GameYears]

-----------------------------------------------------------------------------
(* TelemetryRenderer.getAdjacentPositions *)

\* Mutant of PositionIsValid: the upper limit is not checked.
PositionIsValid_NoUpperLimit(pos, total) ==
    /\ IsNumber(pos)
    /\ pos.n >= 1

\* The guard of the first statement: !(position >= 1 && position <= total_cars).
\* null >= 1 is false in JavaScript.
PositionIsValid(pos, total) ==
    /\ IsNumber(pos)
    /\ pos.n >= 1
    /\ pos.n <= total

\* Mutant of InitialBounds: > for >= in the time-trial test.
InitialBounds_StrictCompare(pos, total, adj) ==
    IF adj > total
    THEN [lower_bound |-> 1, upper_bound |-> total]
    ELSE [lower_bound |-> pos - adj, upper_bound |-> pos + adj]

\* The bounds before the two corrections.
InitialBounds(pos, total, adj) ==
    IF adj >= total
    THEN [lower_bound |-> 1, upper_bound |-> total]
    ELSE [lower_bound |-> pos - adj, upper_bound |-> pos + adj]

\* if (lower_bound < min_valid_lower_bound) { shift the window right }
ShiftRight(b) ==
    IF b.lower_bound < 1
    THEN [lower_bound |-> 1,
          upper_bound |-> b.upper_bound + (1 - b.lower_bound)]
    ELSE b

\* Mutant of ShiftLeft: the upper bound is clamped, the lower bound not moved.
ShiftLeft_ClampOnly(b, total) ==
    IF b.upper_bound > total
    THEN [lower_bound |-> b.lower_bound, upper_bound |-> total]
    ELSE b

\* if (upper_bound > total_cars) { shift the window left }
ShiftLeft(b, total) ==
    IF b.upper_bound > total
    THEN [lower_bound |-> b.lower_bound - (b.upper_bound - total),
          upper_bound |-> total]
    ELSE b

FinalBounds(pos, total, adj) ==
    ShiftLeft(ShiftRight(InitialBounds(pos, total, adj)), total)

\* Array.from({ length: n }, (_, i) => lower_bound + i): empty when n <= 0.
ArrayFrom(n, lower) ==
    IF n <= 0 THEN << >> ELSE [i \in 1..n |-> lower + (i - 1)]

\* Mutant of getAdjacentPositions: an invalid position is taken for the first.
getAdjacentPositions_FirstWhenInvalid(pos, total, adj) ==
    IF ~PositionIsValid(pos, total)
    THEN << 1 >>
    ELSE LET b == FinalBounds(pos.n, total, adj)
         IN  ArrayFrom(b.upper_bound - b.lower_bound + 1, b.lower_bound)

getAdjacentPositions(pos, total, adj) ==
    IF ~PositionIsValid(pos, total)
    THEN << >>
    ELSE LET b == FinalBounds(pos.n, total, adj)
         IN  ArrayFrom(b.upper_bound - b.lower_bound + 1, b.lower_bound)

-----------------------------------------------------------------------------
(* TelemetryRenderer.getPlayerPosition and getRelevantRaceTableRows *)

\* The index of the first entry with is-player set, 0 when there is none.
FirstPlayer(entries) ==
    IF \E i \in 1..Len(entries) : entries[i].is_player
    THEN CHOOSE i \in 1..Len(entries) :
             /\ entries[i].is_player
             /\ \A j \in 1..(i - 1) : ~entries[j].is_player
    ELSE 0

\* Mutant of getPlayerPosition: without a player row, the first row's position.
getPlayerPosition_DefaultsToFirstRow(data) ==
    LET i == FirstPlayer(data.table_entries)
    IN  IF Len(data.table_entries) = 0 THEN Null
        ELSE data.table_entries[IF i = 0 THEN 1 ELSE i].position

getPlayerPosition(data) ==
    LET i == FirstPlayer(data.table_entries)
    IN  IF i = 0 THEN Null ELSE data.table_entries[i].position

\* Mutant of getRelevantRaceTableRows: && for || in the full-grid test.
getRelevantRaceTableRows_BothFlags(data, numAdjacentCars) ==
    IF Len(data.table_entries) = 0 THEN << >>
    ELSE IF data.is_spectating /\ data.race_ended THEN data.table_entries
    ELSE LET totalCars == Len(data.table_entries)
             playerPosition == getPlayerPosition(data)
             relevantPositions ==
                 getAdjacentPositions(playerPosition, totalCars, numAdjacentCars)
             lowerIndex == MinusOne(At(relevantPositions, 0))
             upperIndex == At(relevantPositions, Len(relevantPositions) - 1)
         IN  Slice(data.table_entries, lowerIndex, upperIndex)

\* Mutant of getRelevantRaceTableRows: an empty window gives no rows.
getRelevantRaceTableRows_EmptyWindowNoRows(data, numAdjacentCars) ==
    IF Len(data.table_entries) = 0 THEN << >>
    ELSE IF data.is_spectating \/ data.race_ended THEN data.table_entries
    ELSE LET totalCars == Len(data.table_entries)
             playerPosition == getPlayerPosition(data)
             relevantPositions ==
                 getAdjacentPositions(playerPosition, totalCars, numAdjacentCars)
             lowerIndex == MinusOne(At(relevantPositions, 0))
             upperIndex == At(relevantPositions, Len(relevantPositions) - 1)
         IN  IF Len(relevantPositions) = 0 THEN << >>
             ELSE Slice(data.table_entries, lowerIndex, upperIndex)

getRelevantRaceTableRows(data, numAdjacentCars) ==
    IF Len(data.table_entries) = 0 THEN << >>
    ELSE IF data.is_spectating \/ data.race_ended THEN data.table_entries
    ELSE LET totalCars == Len(data.table_entries)
             playerPosition == getPlayerPosition(data)
             relevantPositions ==
                 getAdjacentPositions(playerPosition, totalCars, numAdjacentCars)
             lowerIndex == MinusOne(At(relevantPositions, 0))
             upperIndex == At(relevantPositions, Len(relevantPositions) - 1)
         IN  Slice(data.table_entries, lowerIndex, upperIndex)

-----------------------------------------------------------------------------
(* RaceTableRowPopulator.populate and TelemetryRenderer.renderTelemetryRow *)

\* addErsInfo reads the undeclared identifier `row` when the game year is 23:
\* a ReferenceError, which leaves populate, renderTelemetryRow and
\* updateDashboard.
PopulateThrows(gameYear) == gameYear = 23

\* The cells populate appends, in order; a new cell is displayed.
Columns == << "position", "name", "ers", "warns-pens", "best-lap", "last-lap",
              "curr-tyre", "tyre-prediction", "damage", "fuel" >>

populate(rowData, gameYear) ==
    [i \in 1..Len(Columns) |-> [column |-> Columns[i], hidden |-> FALSE]]

rowClasses(rowData, isLiveDataMode) ==
    (IF rowData.is_player THEN {"player-row"} ELSE {})
    \cup (IF ~isLiveDataMode THEN {}
          ELSE IF rowData.dnf_status = "DNF" THEN {"dnf-row"}
          ELSE IF rowData.drs THEN {"drs-row"}
          ELSE {})

renderTelemetryRow(rowData, gameYear, isLiveDataMode) ==
    [data      |-> rowData,
     cells     |-> populate(rowData, gameYear),
     classList |-> rowClasses(rowData, isLiveDataMode)]

-----------------------------------------------------------------------------
(* TelemetryRenderer.updateDashboard *)

\* setDeltaColumnState and setFuelColumnState: the DELTA header is hidden in
\* live mode, the FUEL header outside it.  hideColumn also writes the cells of
\* the rows then in the table; updateDashboard removes those rows right after.
HeaderState(isLiveDataMode) ==
    [c \in {"DELTA", "FUEL"} |->
        IF c = "DELTA" THEN isLiveDataMode ELSE ~isLiveDataMode]

MapIndex(entries) == [i \in 1..Len(entries) |-> entries[i].index]

RenderRows(tableEntries, gameYear, isLiveDataMode) ==
    [i \in 1..Len(tableEntries) |->
        renderTelemetryRow(tableEntries[i], gameYear, isLiveDataMode)]

\* Mutant of updateDashboard: indexByPosition is taken from the rows shown.
updateDashboard_IndexOfVisibleRows(data, numAdjacentCars) ==
    LET isLiveDataMode == data.live_data
        tableEntries   == getRelevantRaceTableRows(data, numAdjacentCars)
        gameYear       == data.f1_game_year
        throws         == Len(tableEntries) > 0 /\ PopulateThrows(gameYear)
    IN  /\ incomingData' = data
        /\ g_pref_numAdjacentCars' = numAdjacentCars
        /\ columnHidden' = HeaderState(isLiveDataMode)
        /\ indexByPosition' = Arr(MapIndex(tableEntries))
        /\ telemetryTable' =
               IF throws THEN << >>
               ELSE RenderRows(tableEntries, gameYear, isLiveDataMode)
        /\ raised' = throws

\* Mutant of updateDashboard: the table is not cleared before the rows are
\* appended.
updateDashboard_WithoutClearing(data, numAdjacentCars) ==
    LET isLiveDataMode == data.live_data
        tableEntries   == getRelevantRaceTableRows(data, numAdjacentCars)
        gameYear       == data.f1_game_year
        throws         == Len(tableEntries) > 0 /\ PopulateThrows(gameYear)
    IN  /\ incomingData' = data
        /\ g_pref_numAdjacentCars' = numAdjacentCars
        /\ columnHidden' = HeaderState(isLiveDataMode)
        /\ indexByPosition' = Arr(MapIndex(data.table_entries))
        /\ telemetryTable' =
               IF throws THEN telemetryTable
               ELSE telemetryTable \o
                        RenderRows(tableEntries, gameYear, isLiveDataMode)
        /\ raised' = throws

updateDashboard(data, numAdjacentCars) ==
    LET isLiveDataMode == data.live_data
        tableEntries   == getRelevantRaceTableRows(data, numAdjacentCars)
        gameYear       == data.f1_game_year
        throws         == Len(tableEntries) > 0 /\ PopulateThrows(gameYear)
    IN  /\ incomingData' = data
        /\ g_pref_numAdjacentCars' = numAdjacentCars
        /\ columnHidden' = HeaderState(isLiveDataMode)
        /\ indexByPosition' = Arr(MapIndex(data.table_entries))
        /\ telemetryTable' =
               IF throws THEN << >>
               ELSE RenderRows(tableEntries, gameYear, isLiveDataMode)
        /\ raised' = throws

UpdateDashboard ==
    \E data \in Snapshots(MaxEntries), numAdjacentCars \in 0..MaxAdjacentCars :
        /\ updateDashboard(data, numAdjacentCars)
        /\ UNCHANGED windowVars
        /\ UNCHANGED rowsVars
        /\ UNCHANGED paceVars
        /\ UNCHANGED lapVars
        /\ UNCHANGED renderVars
        /\ UNCHANGED modalVars
        /\ UNCHANGED playerVars

-----------------------------------------------------------------------------
(* The pace-comparison data the backend may push *)

\* One of data['player'], data['prev'], data['next'].  A key the object does
\* not carry reads as Undefined.
Driver(name, last, lap, s1, s2, s3) ==
    [name        |-> name,
     last_ms     |-> last,
     lap_ms      |-> lap,
     sector_1_ms |-> s1,
     sector_2_ms |-> s2,
     sector_3_ms |-> s3]

TimeKeys == {"last_ms", "lap_ms", "sector_1_ms", "sector_2_ms", "sector_3_ms"}

With(driver, key, value) ==
    Driver(driver.name,
           IF key = "last_ms" THEN value ELSE driver.last_ms,
           IF key = "lap_ms" THEN value ELSE driver.lap_ms,
           IF key = "sector_1_ms" THEN value ELSE driver.sector_1_ms,
           IF key = "sector_2_ms" THEN value ELSE driver.sector_2_ms,
           IF key = "sector_3_ms" THEN value ELSE driver.sector_3_ms)

\* The player: a 90.000 lap in three equal sectors.
PlayerTimes ==
    Driver(Str("Norris"), Num(90000), Num(90000),
           Num(30000), Num(30000), Num(30000))

\* A neighbour with a slower lap, a faster first sector, an equal second
\* sector and a slower third sector than the player.
MixedTimes(name) ==
    Driver(name, Num(91200), Num(91200), Num(29600), Num(30000), Num(31600))

\* A neighbour with a faster lap, a slower first sector and a faster third.
MirrorTimes(name) ==
    Driver(name, Num(88800), Num(88800), Num(30400), Num(30000), Num(28400))

\* The player: all times present, or one of three of them null.
PlayerInputs ==
    {PlayerTimes}
    \cup { With(PlayerTimes, k, Null) : k \in {"last_ms", "lap_ms", "sector_2_ms"} }

\* A neighbour: all times present (with a name, or without one), or any one
\* time null.
NeighbourInputs(name) ==
    {MixedTimes(Str(name)), MirrorTimes(Null)}
    \cup { With(MixedTimes(Str(name)), k, Null) : k \in TimeKeys }

PaceInputs ==
    [player : PlayerInputs,
     prev   : NeighbourInputs("Hamilton"),
     next   : NeighbourInputs("Verstappen")]

-----------------------------------------------------------------------------
(* PaceComparison *)

\* An element of the page: its textContent and its classList.
Element(text, classes) == [classList |-> classes, textContent |-> text]

\* a - b: null counts as 0, undefined makes the difference NaN.
ToNumber(v) == IF v = Null THEN Num(0) ELSE IF IsNumber(v) THEN v ELSE NaN

Minus(a, b) ==
    IF IsNumber(ToNumber(a)) /\ IsNumber(ToNumber(b))
    THEN Num(ToNumber(a).n - ToNumber(b).n)
    ELSE NaN

Abs(x) == IF x < 0 THEN -x ELSE x

\* (x / 1000).toFixed(3) for a whole number x >= 0 of milliseconds.
ToFixed3(x) ==
    LET frac == x % 1000
    IN  ToString(x \div 1000) \o "." \o
        (IF frac < 10 THEN "00" ELSE IF frac < 100 THEN "0" ELSE "") \o
        ToString(frac)

\* #formatDelta
formatDelta(deltaMs) ==
    IF ~IsNumber(deltaMs) THEN "--.-"
    ELSE (IF deltaMs.n > 0 THEN "+" ELSE "-") \o ToFixed3(Abs(deltaMs.n))

\* Mutant of updateElementDelta: the two colour classes exchanged.
updateElementDelta_SwappedSigns(classList, delta) ==
    LET removed == classList \ {"text-success", "text-danger"}
    IN  IF IsNumber(delta) /\ delta.n > 0 THEN removed \cup {"text-success"}
        ELSE IF IsNumber(delta) /\ delta.n < 0 THEN removed \cup {"text-danger"}
        ELSE removed

\* #updateElementDelta: the classList after the call.  NaN is neither > 0 nor < 0.
updateElementDelta(classList, delta) ==
    LET removed == classList \ {"text-success", "text-danger"}
    IN  IF IsNumber(delta) /\ delta.n > 0 THEN removed \cup {"text-danger"}
        ELSE IF IsNumber(delta) /\ delta.n < 0 THEN removed \cup {"text-success"}
        ELSE removed

\* truncateName(name).toUpperCase(), on the names of the model.
UpperTruncated(name) ==
    CASE name = "Hamilton"   -> "HAM"
      [] name = "Verstappen" -> "VER"
      [] name = "Norris"     -> "NOR"
      [] OTHER               -> name

\* #getDriverName
getDriverName(driver) ==
    IF driver.name = Null THEN "---" ELSE UpperTruncated(driver.name.s)

\* #clearPrevData and #clearNextData, for one element: the text only.
clearData(element) == Element("---", element.classList)

\* Mutant of isDataAvailable: the third sector is not checked.
isDataAvailable_WithoutSector3(driver) ==
    /\ driver.last_ms # Null
    /\ driver.sector_1_ms # Null
    /\ driver.sector_2_ms # Null

\* #isDataAvailable: `!== null` holds for a key that is missing.
isDataAvailable(driver) ==
    /\ driver.last_ms # Null
    /\ driver.sector_1_ms # Null
    /\ driver.sector_2_ms # Null
    /\ driver.sector_3_ms # Null

SectorMs(driver, i) ==
    CASE i = 1 -> driver.sector_1_ms
      [] i = 2 -> driver.sector_2_ms
      [] i = 3 -> driver.sector_3_ms

\* textContent = #formatDelta(delta); #updateElementDelta(element, delta)
showDelta(element, delta) ==
    Element(formatDelta(delta), updateElementDelta(element.classList, delta))

\* Does update reach the statements that write a neighbour's deltas?
writesDeltas(data, neighbour) ==
    /\ isDataAvailable(data.player)
    /\ isDataAvailable(neighbour)

\* The lap-delta element of one neighbour after update(data).
lapElement(element, data, neighbour) ==
    IF writesDeltas(data, neighbour)
    THEN showDelta(clearData(element), Minus(data.player.lap_ms, neighbour.lap_ms))
    ELSE clearData(element)

\* The sector elements of one neighbour after update(data).  The loop runs
\* unless the player or both neighbours have no data, and writes a neighbour's
\* sectors only if that neighbour has data.
sectorElements(elements, data, neighbour) ==
    [i \in 1..3 |->
        IF writesDeltas(data, neighbour)
        THEN showDelta(clearData(elements[i]),
                       Minus(SectorMs(data.player, i), SectorMs(neighbour, i)))
        ELSE clearData(elements[i])]

\* Mutant of logsAnomaly: the player's data is not looked at.
logsAnomaly_WithoutPlayerCheck(data) ==
    /\ ~isDataAvailable(data.prev)
    /\ ~isDataAvailable(data.next)

\* console.error("Both prev and next data are unavailable", data): reached
\* only after the early return for a player without data.
logsAnomaly(data) ==
    /\ isDataAvailable(data.player)
    /\ ~isDataAvailable(data.prev)
    /\ ~isDataAvailable(data.next)

update(data) ==
    /\ paceData' = data
    /\ prevDriver' = IF data.prev.name # Null
                     THEN getDriverName(data.prev) ELSE prevDriver
    /\ nextDriver' = IF data.next.name # Null
                     THEN getDriverName(data.next) ELSE nextDriver
    /\ prevDelta' = lapElement(prevDelta, data, data.prev)
    /\ nextDelta' = lapElement(nextDelta, data, data.next)
    /\ prevSectors' = sectorElements(prevSectors, data, data.prev)
    /\ nextSectors' = sectorElements(nextSectors, data, data.next)
    /\ paceLogged' = logsAnomaly(data)

-----------------------------------------------------------------------------
(* The lap-time histories the backend may push *)

\* One entry of 'lap-time-history-data'.  The backend sends each time also as
\* a string ('lap-time-str', ...): TimeStr of the time.
LapData(lapMs, s1Ms, s2Ms, s3Ms, flags) ==
    [lap_time_in_ms      |-> lapMs,
     sector_1_time_in_ms |-> s1Ms,
     sector_2_time_in_ms |-> s2Ms,
     sector_3_time_in_ms |-> s3Ms,
     lap_valid_bit_flags |-> flags]

TimeStr(timeMs) == ToString(timeMs)

\* Columns 1..4 are the lap time and the three sector times.  pb[c] is the
\* driver's 'fastest-...-lap-number' of column c, best[c] the
\* 'global-fastest-...-ms' of column c.
LapTimeHistory(pb, best, laps) ==
    [fastest_lap_number    |-> pb[1],
     fastest_s1_lap_number |-> pb[2],
     fastest_s2_lap_number |-> pb[3],
     fastest_s3_lap_number |-> pb[4],
     global_fastest_lap_ms |-> best[1],
     global_fastest_s1_ms  |-> best[2],
     global_fastest_s2_ms  |-> best[3],
     global_fastest_s3_ms  |-> best[4],
     lap_time_history_data |-> laps]

\* An ordinary lap i: valid, slower than every global fastest time.
OrdinaryMs(c, i) == IF c = 1 THEN 90000 + i ELSE 30000 + i

\* One lap of a history, lap m, is marked.  Its column c has one of six
\* profiles, (c + k) % 6 for the rotation k of the history:
\*   profile % 3 = 0   its time is the global fastest time,
\*   profile % 3 = 1   the global fastest time is 1000 ms less,
\*   profile % 3 = 2   no time yet: its time is 0 and so is the global fastest,
\*   profile >= 3      lap m is the driver's personal best of the column.
Profile(c, k) == (c + k) % 6

MarkedMs(c, k) ==
    IF Profile(c, k) % 3 = 2 THEN 0
    ELSE IF c = 1 THEN 80000 ELSE 26000

GlobalBestMs(c, k) ==
    IF Profile(c, k) % 3 = 2 THEN 0
    ELSE IF Profile(c, k) % 3 = 1 THEN MarkedMs(c, k) - 1000
    ELSE MarkedMs(c, k)

PersonalBestLap(c, k, m) == IF Profile(c, k) >= 3 THEN m ELSE 0

\* A history of n laps whose lap m is marked and has the given validity flags.
History(n, m, k, flags) ==
    LapTimeHistory(
        [c \in 1..4 |-> PersonalBestLap(c, k, m)],
        [c \in 1..4 |-> GlobalBestMs(c, k)],
        [i \in 1..n |->
            IF i = m
            THEN LapData(MarkedMs(1, k), MarkedMs(2, k), MarkedMs(3, k),
                         MarkedMs(4, k), flags)
            ELSE LapData(OrdinaryMs(1, i), OrdinaryMs(2, i), OrdinaryMs(3, i),
                         OrdinaryMs(4, i), 15)])

\* null, the history without laps, and the histories of 1..MaxLaps laps whose
\* oldest or latest lap is marked.
LapTimeHistories ==
    {Null, History(0, 0, 0, 15)} \cup
    UNION { { History(n, m, k, flags) :
                  m \in {1, n}, k \in 0..5, flags \in 0..15 }
          : n \in 1..MaxLaps }

-----------------------------------------------------------------------------
(* LapTimeTableWidget *)

\* const numRows = 5
numRows == 5

getValidTimeStr(timeMs, timeStr) == IF timeMs = 0 THEN "---" ELSE timeStr

\* Mutant of BitAnd: the lap bit is read whatever the mask is.
BitAnd_LapBitOnly(validFlags, mask) == validFlags % 2

\* validFlags & mask, for a mask of one bit.
BitAnd(validFlags, mask) == ((validFlags \div mask) % 2) * mask

\* Mutant of applyColourToCell: the personal best is tested first.
applyColourToCell_GreenFirst(classList, lapNum, time, best, pb, isValid) ==
    IF pb # 0 /\ lapNum = pb THEN classList \cup {"text-success"}
    ELSE IF best # 0 /\ time = best THEN classList \cup {"text-purple"}
    ELSE IF isValid = 0 THEN classList \cup {"text-danger"}
    ELSE classList

\* applyColourToCell: the classList of the cell after the call.  0 is falsy.
applyColourToCell(classList, lapNum, time, globalBestTime, pbLapNum, isValid) ==
    IF globalBestTime # 0 /\ time = globalBestTime
    THEN classList \cup {"text-purple"}
    ELSE IF pbLapNum # 0 /\ lapNum = pbLapNum THEN classList \cup {"text-success"}
    ELSE IF isValid = 0 THEN classList \cup {"text-danger"}
    ELSE classList

\* The lap number cell and the four time cells of the row of
\* lapHistoryData[i], i counted from 0.
LapRow(history, i) ==
    LET lapData    == history.lap_time_history_data[i + 1]
        lapNum     == i + 1
        validFlags == lapData.lap_valid_bit_flags
        timeCell(timeMs, globalBestMs, pbLapNum, mask) ==
            Element(getValidTimeStr(timeMs, TimeStr(timeMs)),
                    applyColourToCell({}, lapNum, timeMs, globalBestMs,
                                      pbLapNum, BitAnd(validFlags, mask)))
    IN  [lapNumber |-> lapNum,
         timeCells |->
            << timeCell(lapData.lap_time_in_ms, history.global_fastest_lap_ms,
                        history.fastest_lap_number, 1),
               timeCell(lapData.sector_1_time_in_ms, history.global_fastest_s1_ms,
                        history.fastest_s1_lap_number, 2),
               timeCell(lapData.sector_2_time_in_ms, history.global_fastest_s2_ms,
                        history.fastest_s2_lap_number, 4),
               timeCell(lapData.sector_3_time_in_ms, history.global_fastest_s3_ms,
                        history.fastest_s3_lap_number, 8) >>]

\* Mutant of RowIndex: the loop runs from the oldest lap.
RowIndex_FromOldest(length, count) == count

\* The index i of the loop
\*   for (i = length - 1; i >= 0 && count < numRows; i--, count++)
\* at a given count.
RowIndex(length, count) == length - 1 - count

LapRows(history) ==
    LET length == Len(history.lap_time_history_data)
    IN  [r \in 1..Min(numRows, length) |->
            LapRow(history, RowIndex(length, r - 1))]

\* clearTable(table, true), of utils.js: the table is left without rows.
clearTable(table) == << >>

\* Mutant of LapTimeTableWidget_update: the null test comes before clearTable.
LapTimeTableWidget_update_NullKeepsRows(history) ==
    /\ lapTimeHistory' = history
    /\ lapTimeTable' = IF history = Null THEN lapTimeTable
                       ELSE clearTable(lapTimeTable) \o LapRows(history)

\* LapTimeTableWidget.update: the table is cleared first; a null history
\* returns right after, any other appends its rows.
LapTimeTableWidget_update(history) ==
    /\ lapTimeHistory' = history
    /\ lapTimeTable' = IF history = Null THEN clearTable(lapTimeTable)
                       ELSE clearTable(lapTimeTable) \o LapRows(history)

-----------------------------------------------------------------------------
(* The state after construction, part by part *)


WindowIdle ==
    /\ position = Null
    /\ total_cars = 0
    /\ num_adjacent_cars = 0
    /\ adjacentPositions = << >>
    /\ windowPc = "off"

RowsIdle ==
    /\ rowsData = Null
    /\ rowsPref = 0
    /\ relevantRows = << >>
    /\ rowsPc = "off"

DashboardIdle ==
    /\ incomingData = Null
    /\ g_pref_numAdjacentCars = 0
    /\ telemetryTable = << >>
    /\ indexByPosition = Null
    /\ columnHidden = [c \in {"DELTA", "FUEL"} |-> FALSE]
    /\ raised = FALSE

PaceIdle ==
    /\ paceData = Null
    /\ prevDriver = ""
    /\ nextDriver = ""
    /\ prevDelta = Element("", {})
    /\ nextDelta = Element("", {})
    /\ prevSectors = [i \in 1..3 |-> Element("", {})]
    /\ nextSectors = [i \in 1..3 |-> Element("", {})]
    /\ paceLogged = FALSE

\* No update call yet: no argument, and a table without rows.
LapsIdle ==
    /\ lapTimeHistory = Undefined
    /\ lapTimeTable = << >>

PlayerIdle ==
    /\ playerData = Null
    /\ returnedPosition = Null
    /\ playerPc = "off"

RenderIdle ==
    /\ renderData = Null
    /\ renderYear = 0
    /\ renderLive = FALSE
    /\ renderedRow = Null
    /\ renderPc = "off"

ModalIdle ==
    /\ modalData = Null
    /\ navTabs = << >>
    /\ tabContent = << >>
    /\ ersTable = << >>
    /\ navPc = "off"
    /\ contentPc = "off"

-----------------------------------------------------------------------------
(* SpecWindow: one call of getAdjacentPositions on arguments drawn from the *)
(* bounded sets                                                             *)

Positions == { Num(n) : n \in (-1)..(MaxTotalCars + 1) } \cup {Null}

InitWindow ==
    /\ position \in Positions
    /\ total_cars \in 0..MaxTotalCars
    /\ num_adjacent_cars \in 0..MaxRadius
    /\ adjacentPositions = << >>
    /\ windowPc = "call"
    /\ RowsIdle
    /\ DashboardIdle
    /\ PaceIdle
    /\ LapsIdle
    /\ PlayerIdle
    /\ RenderIdle
    /\ ModalIdle

CallGetAdjacentPositions ==
    /\ windowPc = "call"
    /\ adjacentPositions' =
           getAdjacentPositions(position, total_cars, num_adjacent_cars)
    /\ windowPc' = "done"
    /\ UNCHANGED << position, total_cars, num_adjacent_cars >>
    /\ UNCHANGED rowsVars
    /\ UNCHANGED dashboardVars
    /\ UNCHANGED paceVars
    /\ UNCHANGED lapVars
    /\ UNCHANGED renderVars
    /\ UNCHANGED modalVars
    /\ UNCHANGED playerVars

NextWindow == CallGetAdjacentPositions

SpecWindow == InitWindow /\ [][NextWindow]_vars

-----------------------------------------------------------------------------
(* SpecPace: the overlay under any sequence of update calls *)

Update ==
    \E data \in PaceInputs :
        /\ update(data)
        /\ UNCHANGED windowVars
        /\ UNCHANGED rowsVars
        /\ UNCHANGED dashboardVars
        /\ UNCHANGED lapVars
        /\ UNCHANGED renderVars
        /\ UNCHANGED modalVars
        /\ UNCHANGED playerVars

InitPace ==
    /\ WindowIdle
    /\ RowsIdle
    /\ DashboardIdle
    /\ PaceIdle
    /\ LapsIdle
    /\ PlayerIdle
    /\ RenderIdle
    /\ ModalIdle

NextPace == Update

SpecPace == InitPace /\ [][NextPace]_vars

-----------------------------------------------------------------------------
(* Spec: the renderer under any sequence of updateDashboard calls *)

Init ==
    /\ WindowIdle
    /\ RowsIdle
    /\ DashboardIdle
    /\ PaceIdle
    /\ LapsIdle
    /\ PlayerIdle
    /\ RenderIdle
    /\ ModalIdle

Next == UpdateDashboard

Spec == Init /\ [][Next]_vars

-----------------------------------------------------------------------------
(* SpecRows: one call of getRelevantRaceTableRows on arguments drawn from   *)
(* the bounded sets                                                         *)

InitRows ==
    /\ WindowIdle
    /\ rowsData \in Snapshots(MaxRows)
    /\ rowsPref \in 0..MaxPref
    /\ relevantRows = << >>
    /\ rowsPc = "call"
    /\ DashboardIdle
    /\ PaceIdle
    /\ LapsIdle
    /\ PlayerIdle
    /\ RenderIdle
    /\ ModalIdle

\* Mutant of CallGetRelevantRaceTableRows: the rows are taken from the snapshot
\* the renderer processed last, when there is one.
CallGetRelevantRaceTableRows_FromLastSnapshot ==
    /\ rowsPc = "call"
    /\ relevantRows' =
           getRelevantRaceTableRows(
               IF incomingData = Null THEN rowsData ELSE incomingData, rowsPref)
    /\ rowsPc' = "done"
    /\ UNCHANGED << rowsData, rowsPref >>
    /\ UNCHANGED windowVars
    /\ UNCHANGED dashboardVars
    /\ UNCHANGED paceVars
    /\ UNCHANGED lapVars
    /\ UNCHANGED renderVars
    /\ UNCHANGED modalVars
    /\ UNCHANGED playerVars

\* Mutant of CallGetRelevantRaceTableRows: splice for slice, the rows returned
\* are removed from the snapshot.
CallGetRelevantRaceTableRows_Splices ==
    /\ rowsPc = "call"
    /\ relevantRows' = getRelevantRaceTableRows(rowsData, rowsPref)
    /\ rowsPc' = "done"
    /\ rowsData' = [rowsData EXCEPT !.table_entries =
                        IF rowsData.is_spectating \/ rowsData.race_ended
                        THEN @
                        ELSE SelectSeq(@, LAMBDA e :
                                 \A i \in 1..Len(relevantRows') :
                                     relevantRows'[i] # e)]
    /\ UNCHANGED rowsPref
    /\ UNCHANGED windowVars
    /\ UNCHANGED dashboardVars
    /\ UNCHANGED paceVars
    /\ UNCHANGED lapVars
    /\ UNCHANGED renderVars
    /\ UNCHANGED modalVars
    /\ UNCHANGED playerVars

CallGetRelevantRaceTableRows ==
    /\ rowsPc = "call"
    /\ relevantRows' = getRelevantRaceTableRows(rowsData, rowsPref)
    /\ rowsPc' = "done"
    /\ UNCHANGED << rowsData, rowsPref >>
    /\ UNCHANGED windowVars
    /\ UNCHANGED dashboardVars
    /\ UNCHANGED paceVars
    /\ UNCHANGED lapVars
    /\ UNCHANGED renderVars
    /\ UNCHANGED modalVars
    /\ UNCHANGED playerVars

NextRows == CallGetRelevantRaceTableRows

SpecRows == InitRows /\ [][NextRows]_vars

-----------------------------------------------------------------------------
(* SpecLaps: the lap-time table under any sequence of update calls *)

UpdateLapTimes ==
    \E history \in LapTimeHistories :
        /\ LapTimeTableWidget_update(history)
        /\ UNCHANGED windowVars
        /\ UNCHANGED rowsVars
        /\ UNCHANGED dashboardVars
        /\ UNCHANGED paceVars
        /\ UNCHANGED playerVars
        /\ UNCHANGED renderVars
        /\ UNCHANGED modalVars

InitLaps ==
    /\ WindowIdle
    /\ RowsIdle
    /\ DashboardIdle
    /\ PaceIdle
    /\ LapsIdle
    /\ PlayerIdle
    /\ RenderIdle
    /\ ModalIdle

NextLaps == UpdateLapTimes

SpecLaps == InitLaps /\ [][NextLaps]_vars

-----------------------------------------------------------------------------
(* SpecCalls: calls of getPlayerPosition, getRelevantRaceTableRows and      *)
(* getAdjacentPositions on a renderer that processes snapshots in between.  *)
(* JavaScript runs a call to its end: nothing starts while a call is        *)
(* recorded as started.                                                     *)

\* No row, two rows without a player, the player first of two rows, the
\* player second of three rows.
CallEntryLists ==
    { << >>,
      [slot \in 1..2 |-> Entry(slot, 2, 0, Null)],
      [slot \in 1..2 |-> Entry(slot, 2, 1, Num(1))],
      [slot \in 1..3 |-> Entry(slot, 3, 2, Num(2))] }

CallSnapshots ==
    [table_entries : CallEntryLists,
     is_spectating : BOOLEAN,
     race_ended    : {FALSE},
     live_data     : {TRUE},
     f1_game_year  : {24}]

CallPrefs == 0..1

CallPositions == {Null, Num(0), Num(1), Num(3)}

CallTotals == {0, 2}

NoCallInFlight == windowPc # "call" /\ rowsPc # "call" /\ playerPc # "call"

ProcessSnapshot ==
    /\ NoCallInFlight
    /\ \E data \in CallSnapshots, numAdjacentCars \in CallPrefs :
           updateDashboard(data, numAdjacentCars)
    /\ UNCHANGED windowVars
    /\ UNCHANGED rowsVars
    /\ UNCHANGED paceVars
    /\ UNCHANGED lapVars
    /\ UNCHANGED renderVars
    /\ UNCHANGED modalVars
    /\ UNCHANGED playerVars

InvokeGetRelevantRaceTableRows ==
    /\ NoCallInFlight
    /\ rowsData' \in CallSnapshots
    /\ rowsPref' \in CallPrefs
    /\ relevantRows' = << >>
    /\ rowsPc' = "call"
    /\ UNCHANGED windowVars
    /\ UNCHANGED dashboardVars
    /\ UNCHANGED paceVars
    /\ UNCHANGED lapVars
    /\ UNCHANGED renderVars
    /\ UNCHANGED modalVars
    /\ UNCHANGED playerVars

InvokeGetAdjacentPositions ==
    /\ NoCallInFlight
    /\ position' \in CallPositions
    /\ total_cars' \in CallTotals
    /\ num_adjacent_cars' \in CallPrefs
    /\ adjacentPositions' = << >>
    /\ windowPc' = "call"
    /\ UNCHANGED rowsVars
    /\ UNCHANGED dashboardVars
    /\ UNCHANGED paceVars
    /\ UNCHANGED lapVars
    /\ UNCHANGED renderVars
    /\ UNCHANGED modalVars
    /\ UNCHANGED playerVars

InvokeGetPlayerPosition ==
    /\ NoCallInFlight
    /\ playerData' \in CallSnapshots
    /\ returnedPosition' = Null
    /\ playerPc' = "call"
    /\ UNCHANGED windowVars
    /\ UNCHANGED rowsVars
    /\ UNCHANGED dashboardVars
    /\ UNCHANGED paceVars
    /\ UNCHANGED lapVars
    /\ UNCHANGED renderVars
    /\ UNCHANGED modalVars

CallGetPlayerPosition ==
    /\ playerPc = "call"
    /\ returnedPosition' = getPlayerPosition(playerData)
    /\ playerPc' = "done"
    /\ UNCHANGED playerData
    /\ UNCHANGED windowVars
    /\ UNCHANGED rowsVars
    /\ UNCHANGED dashboardVars
    /\ UNCHANGED paceVars
    /\ UNCHANGED lapVars
    /\ UNCHANGED renderVars
    /\ UNCHANGED modalVars

InitCalls ==
    /\ WindowIdle
    /\ RowsIdle
    /\ DashboardIdle
    /\ PaceIdle
    /\ LapsIdle
    /\ PlayerIdle
    /\ RenderIdle
    /\ ModalIdle

NextCalls ==
    \/ ProcessSnapshot
    \/ InvokeGetRelevantRaceTableRows
    \/ CallGetRelevantRaceTableRows
    \/ InvokeGetAdjacentPositions
    \/ CallGetAdjacentPositions
    \/ InvokeGetPlayerPosition
    \/ CallGetPlayerPosition

SpecCalls == InitCalls /\ [][NextCalls]_vars

-----------------------------------------------------------------------------
(* SpecRender: one call of renderTelemetryRow on arguments drawn from the   *)
(* bounded sets                                                             *)

\* The driver-info of a table entry: player or not, running, retired or
\* disqualified, DRS open or not.
RowDataInputs ==
    [position   : {Num(1), Num(2)},
     index      : {0},
     is_player  : BOOLEAN,
     dnf_status : {"", "DNF", "DSQ"},
     drs        : BOOLEAN]

InitRender ==
    /\ WindowIdle
    /\ RowsIdle
    /\ DashboardIdle
    /\ PaceIdle
    /\ LapsIdle
    /\ PlayerIdle
    /\ renderData \in RowDataInputs
    /\ renderYear \in GameYears
    /\ renderLive \in BOOLEAN
    /\ renderedRow = Null
    /\ renderPc = "call"
    /\ ModalIdle

\* renderTelemetryRow: populate comes first, and what it throws leaves the
\* method before the row is marked and returned.
CallRenderTelemetryRow ==
    /\ renderPc = "call"
    /\ renderedRow' =
           IF PopulateThrows(renderYear) THEN Null
           ELSE renderTelemetryRow(renderData, renderYear, renderLive)
    /\ renderPc' = IF PopulateThrows(renderYear) THEN "raised" ELSE "done"
    /\ UNCHANGED << renderData, renderYear, renderLive >>
    /\ UNCHANGED windowVars
    /\ UNCHANGED rowsVars
    /\ UNCHANGED dashboardVars
    /\ UNCHANGED paceVars
    /\ UNCHANGED lapVars
    /\ UNCHANGED playerVars
    /\ UNCHANGED modalVars

NextRender == CallRenderTelemetryRow

SpecRender == InitRender /\ [][NextRender]_vars

-----------------------------------------------------------------------------
(* DriverModalDataPopulator: the driver data it is constructed with *)

MaxPerLapInfo == 4

\* lapInfo["car-status-data"] of a lap: capacity 4 MJ, of which 3 are left,
\* 1 was deployed and 1 + 2 were harvested on the lap.
CarStatusData ==
    [ers_max_capacity            |-> 4,
     ers_store_energy            |-> 3,
     ers_deployed_this_lap       |-> 1,
     ers_harvested_this_lap_mguh |-> 1,
     ers_harvested_this_lap_mguk |-> 2]

\* data["per-lap-info"]: n entries of consecutive lap numbers from first on,
\* all of them with car-status-data or all of them without.
PerLapInfo(n, first, status) ==
    [i \in 1..n |-> [lap_number |-> first + i - 1, car_status_data |-> status]]

\* A key the object does not carry reads as Undefined.
ModalDataInputs ==
    { [per_lap_info         |-> PerLapInfo(n, first, status),
       tyre_wear_predictions |-> predictions] :
        n \in 0..MaxPerLapInfo, first \in {0, 1},
        status \in {Undefined, CarStatusData},
        predictions \in {Undefined, Arr(<< >>)} }

-----------------------------------------------------------------------------
(* DriverModalDataPopulator: the ERS history table *)

\* formatFloatWithTwoDecimals of the quotient (num / den), rounded to the
\* nearest hundredth.
formatFloatWithTwoDecimals(num, den) ==
    LET hundredths == (2 * 100 * num + den) \div (2 * den)
        frac       == hundredths % 100
    IN  ToString(hundredths \div 100) \o "." \o
        (IF frac < 10 THEN "0" ELSE "") \o ToString(frac)

ErsPerc(val, maxErsCapacity) ==
    formatFloatWithTwoDecimals(val * 100, maxErsCapacity) \o "%"

\* populateTableRow: one cell per text.
populateTableRow(row, cellsData) == row \o cellsData

ErsNotAvailable == << "ERS data not available" >>

\* The body of the forEach callback for one lapInfo, on the row inserted for
\* it: the contents of that row when the callback returns.
ErsRow(lapInfo, length) ==
    LET row           == << >>
        currentLapNum == lapInfo.lap_number
        status        == lapInfo.car_status_data
    IN  IF currentLapNum = 0
        THEN IF length = 1 THEN ErsNotAvailable ELSE row
        ELSE IF status # Undefined
             THEN LET cap  == status.ers_max_capacity
                      mguh == status.ers_harvested_this_lap_mguh
                      mguk == status.ers_harvested_this_lap_mguk
                  IN  populateTableRow(row,
                          << ToString(currentLapNum),
                             ErsPerc(status.ers_store_energy, cap),
                             ErsPerc(status.ers_deployed_this_lap, cap),
                             ErsPerc(mguh, cap),
                             ErsPerc(mguk, cap),
                             ErsPerc(mguh + mguk, cap) >>)
             ELSE populateTableRow(row,
                      << ToString(currentLapNum),
                         "---", "---", "---", "---", "---" >>)

\* populateERSHistoryTab: the rows of the table body, one inserted per entry
\* before the entry's lap number is looked at.
populateERSHistoryTab(perLapInfo) ==
    IF Len(perLapInfo) > 0
    THEN [i \in 1..Len(perLapInfo) |-> ErsRow(perLapInfo[i], Len(perLapInfo))]
    ELSE << ErsNotAvailable >>

-----------------------------------------------------------------------------
(* DriverModalDataPopulator: the nav buttons and the tab panes *)

\* The tabs array of createNavTabs (and, with the populate methods for the
\* labels, of createTabContent), in source order.
ModalTabs ==
    << [id |-> "lap-times",            label |-> "Lap Times"],
       [id |-> "fuel-usage",           label |-> "Fuel Usage History"],
       [id |-> "tyre-stint-history",   label |-> "Tyre Stint History"],
       [id |-> "ers-history",          label |-> "ERS Usage History"],
       [id |-> "car-damage",           label |-> "Car Damage"],
       [id |-> "tyre-wear-prediction", label |-> "Tyre Wear Prediction"],
       [id |-> "warns-pens-info",      label |-> "Warns/Pens"],
       [id |-> "collisions-info",      label |-> "Collisions"] >>

\* The labels and the ids in ascending localeCompare order.
LabelsAscending ==
    << "Car Damage", "Collisions", "ERS Usage History", "Fuel Usage History",
       "Lap Times", "Tyre Stint History", "Tyre Wear Prediction",
       "Warns/Pens" >>

IdsAscending ==
    << "car-damage", "collisions-info", "ers-history", "fuel-usage",
       "lap-times", "tyre-stint-history", "tyre-wear-prediction",
       "warns-pens-info" >>

\* tabs.sort by label and by id.
SortByLabel(tabs) ==
    [i \in 1..Len(tabs) |->
        tabs[CHOOSE j \in 1..Len(tabs) : tabs[j].label = LabelsAscending[i]]]

SortById(tabs) ==
    [i \in 1..Len(tabs) |->
        tabs[CHOOSE j \in 1..Len(tabs) : tabs[j].id = IdsAscending[i]]]

\* populateTyreWearPredictionTab writes into the pane only when the data has
\* the key; every other populate method appends its content.
populatesPane(id, data) ==
    IF id = "tyre-wear-prediction"
    THEN data.tyre_wear_predictions # Undefined
    ELSE TRUE

\* createNavTabs: one button per tab of the sorted array.
createNavTabs ==
    LET tabs == SortByLabel(ModalTabs)
    IN  [i \in 1..Len(tabs) |->
            [id       |-> tabs[i].id \o "-tab",
             label    |-> tabs[i].label,
             controls |-> tabs[i].id]]

\* createTabContent: one pane per tab of the sorted array, appended after its
\* populate method has run.
createTabContent(data) ==
    LET tabs == SortById(ModalTabs)
    IN  [i \in 1..Len(tabs) |->
            [id        |-> tabs[i].id,
             populated |-> populatesPane(tabs[i].id, data)]]

-----------------------------------------------------------------------------
(* SpecModal: createNavTabs and createTabContent of one populator, each     *)
(* called once, in either order                                             *)

InitModal ==
    /\ WindowIdle
    /\ RowsIdle
    /\ DashboardIdle
    /\ PaceIdle
    /\ LapsIdle
    /\ PlayerIdle
    /\ RenderIdle
    /\ modalData \in ModalDataInputs
    /\ navTabs = << >>
    /\ tabContent = << >>
    /\ ersTable = << >>
    /\ navPc = "call"
    /\ contentPc = "call"

CreateNavTabs ==
    /\ navPc = "call"
    /\ navTabs' = createNavTabs
    /\ navPc' = "done"
    /\ UNCHANGED << modalData, tabContent, ersTable, contentPc >>
    /\ UNCHANGED windowVars
    /\ UNCHANGED rowsVars
    /\ UNCHANGED dashboardVars
    /\ UNCHANGED paceVars
    /\ UNCHANGED lapVars
    /\ UNCHANGED playerVars
    /\ UNCHANGED renderVars

CreateTabContent ==
    /\ contentPc = "call"
    /\ tabContent' = createTabContent(modalData)
    /\ ersTable' = populateERSHistoryTab(modalData.per_lap_info)
    /\ contentPc' = "done"
    /\ UNCHANGED << modalData, navTabs, navPc >>
    /\ UNCHANGED windowVars
    /\ UNCHANGED rowsVars
    /\ UNCHANGED dashboardVars
    /\ UNCHANGED paceVars
    /\ UNCHANGED lapVars
    /\ UNCHANGED playerVars
    /\ UNCHANGED renderVars

NextModal ==
    \/ CreateNavTabs
    \/ CreateTabContent

SpecModal == InitModal /\ [][NextModal]_vars

-----------------------------------------------------------------------------
(* Properties of getAdjacentPositions, checked under SpecWindow *)

\* The array lo, lo+1, ..., hi.
Range(lo, hi) == [i \in 1..(hi - lo + 1) |-> lo + (i - 1)]

WindowDone == windowPc = "done"

ValidCall == IsNumber(position) /\ position.n >= 1 /\ position.n <= total_cars

\* C1: for every total_cars >= 1, every position in 1..total_cars and every
\* num_adjacent_cars >= 0, the returned range lo..hi satisfies
\* 1 <= lo <= hi <= total_cars and holds exactly
\* min(2*num_adjacent_cars + 1, total_cars) positions.
C1_WindowInsideGrid ==
    (WindowDone /\ total_cars >= 1 /\ ValidCall /\ num_adjacent_cars >= 0) =>
        /\ Len(adjacentPositions) = Min(2 * num_adjacent_cars + 1, total_cars)
        /\ adjacentPositions =
               Range(adjacentPositions[1],
                     adjacentPositions[Len(adjacentPositions)])
        /\ 1 <= adjacentPositions[1]
        /\ adjacentPositions[Len(adjacentPositions)] <= total_cars

\* C3: for every position outside 1..total_cars (below 1, above total_cars, or
\* null) the call returns the empty array, whatever total_cars and
\* num_adjacent_cars are.
C3_InvalidPositionGivesEmpty ==
    (WindowDone /\ ~ValidCall) => adjacentPositions = << >>

\* C3 witness: the call (5, 3, 3) has returned [].
C3_Witness ==
    /\ WindowDone
    /\ position = Num(5) /\ total_cars = 3 /\ num_adjacent_cars = 3
    /\ adjacentPositions = << >>

\* C7: for total_cars >= 2r + 1 and a valid position the call returns
\* position-r .. position+r when that fits in 1..total_cars, 1 .. 2r+1 when
\* position - r < 1, and total_cars-2r .. total_cars when
\* position + r > total_cars.
C7_ShiftedWindow ==
    LET r == num_adjacent_cars
        p == position.n
    IN  (WindowDone /\ ValidCall /\ total_cars >= 2 * r + 1) =>
            /\ (p - r >= 1 /\ p + r <= total_cars) =>
                   adjacentPositions = Range(p - r, p + r)
            /\ (p - r < 1) => adjacentPositions = Range(1, 2 * r + 1)
            /\ (p + r > total_cars) =>
                   adjacentPositions = Range(total_cars - 2 * r, total_cars)

\* C7 witness: the call (20, 20, 3) has returned 14..20, the window shifted left.
C7_Witness ==
    /\ WindowDone
    /\ position = Num(20) /\ total_cars = 20 /\ num_adjacent_cars = 3
    /\ adjacentPositions = << 14, 15, 16, 17, 18, 19, 20 >>

\* C8: for every valid position, when num_adjacent_cars >= total_cars the call
\* returns the full range 1..total_cars.
C8_FullRangeWhenRadiusCoversGrid ==
    (WindowDone /\ ValidCall /\ num_adjacent_cars >= total_cars) =>
        adjacentPositions = Range(1, total_cars)

\* C8 witness: the call (2, 3, 4) has returned 1..3.
C8_Witness ==
    /\ WindowDone
    /\ position = Num(2) /\ total_cars = 3 /\ num_adjacent_cars = 4
    /\ adjacentPositions = << 1, 2, 3 >>

-----------------------------------------------------------------------------
(* Properties of getRelevantRaceTableRows, checked under SpecRows *)

RowsDone == rowsPc = "done"

Windowing == ~rowsData.is_spectating /\ ~rowsData.race_ended

HasPlayer(entries) == \E i \in 1..Len(entries) : entries[i].is_player

\* C2: when the race is not spectated, has not ended and a player row exists
\* with position p in 1..N, the call returns exactly the entries at positions
\* lo..hi, in snapshot order, where lo..hi is what
\* getAdjacentPositions(p, N, g_pref_numAdjacentCars) returns: hi - lo + 1 rows.
C2_RowsAreTheWindow ==
    LET entries == rowsData.table_entries
        n == Len(entries)
        p == getPlayerPosition(rowsData)
        w == getAdjacentPositions(p, n, rowsPref)
    IN  (RowsDone /\ Windowing /\ HasPlayer(entries) /\ PositionIsValid(p, n)) =>
            /\ Len(relevantRows) = Len(w)
            /\ \A i \in 1..Len(w) :
                   /\ w[i] \in 1..n
                   /\ relevantRows[i] = entries[w[i]]

\* C5: when the race is not spectated, has not ended and no entry has
\* is-player set, the call returns the full list of entries in order, for every
\* N >= 1 and every g_pref_numAdjacentCars.
C5_NoPlayerGivesAllRows ==
    (RowsDone /\ Windowing /\ Len(rowsData.table_entries) >= 1
        /\ ~HasPlayer(rowsData.table_entries)) =>
        relevantRows = rowsData.table_entries

\* C5 witness: three rows without a player and a radius of 0 gave three rows.
C5_Witness ==
    /\ RowsDone /\ Windowing
    /\ Len(rowsData.table_entries) = 3
    /\ ~HasPlayer(rowsData.table_entries)
    /\ rowsPref = 0
    /\ Len(relevantRows) = 3

\* C6: when is-spectating or race-ended is set the call returns all entries,
\* unmodified and in snapshot order, whatever the player's position and
\* g_pref_numAdjacentCars are.
C6_FullGridWhenSpectatingOrEnded ==
    (RowsDone /\ (rowsData.is_spectating \/ rowsData.race_ended)) =>
        relevantRows = rowsData.table_entries

\* C6 witness: the race has ended (not spectating), the player is first of four
\* rows, the radius is 0, and four rows came back.
C6_Witness ==
    /\ RowsDone
    /\ rowsData.race_ended /\ ~rowsData.is_spectating
    /\ Len(rowsData.table_entries) = 4
    /\ getPlayerPosition(rowsData) = Num(1)
    /\ rowsPref = 0
    /\ Len(relevantRows) = 4

-----------------------------------------------------------------------------
(* Properties of updateDashboard, checked under Spec *)

Updated == incomingData # Null

\* The last snapshot has a player row whose position is outside 1..N, and the
\* window is in use.
MalformedPlayerPosition ==
    /\ Updated
    /\ ~incomingData.is_spectating /\ ~incomingData.race_ended
    /\ HasPlayer(incomingData.table_entries)
    /\ ~PositionIsValid(getPlayerPosition(incomingData),
                        Len(incomingData.table_entries))

RenderedData == [i \in 1..Len(telemetryTable) |-> telemetryTable[i].data]

\* C4, as claimed: when the player row's position is outside 1..N,
\* getRelevantRaceTableRows returns no rows and updateDashboard leaves the race
\* table empty, without raising.
C4_MalformedPositionRendersNothing ==
    MalformedPlayerPosition =>
        /\ getRelevantRaceTableRows(incomingData, g_pref_numAdjacentCars) = << >>
        /\ telemetryTable = << >>
        /\ ~raised

\* C4, amended: when the player row's position is outside 1..N the window
\* selector returns an empty window and getRelevantRaceTableRows returns every
\* row of the snapshot, in order; updateDashboard renders one row per entry and
\* does not raise, except for game year 23, where populating the first row
\* throws and the table is left empty.
C4_MalformedPositionRendersAllRows ==
    MalformedPlayerPosition =>
        /\ getAdjacentPositions(getPlayerPosition(incomingData),
                                Len(incomingData.table_entries),
                                g_pref_numAdjacentCars) = << >>
        /\ getRelevantRaceTableRows(incomingData, g_pref_numAdjacentCars)
               = incomingData.table_entries
        /\ IF incomingData.f1_game_year = 23
           THEN raised /\ telemetryTable = << >>
           ELSE ~raised /\ RenderedData = incomingData.table_entries

\* C4 witness: the player is second of two rows and reports position 3; both
\* rows are in the table.
C4_Witness ==
    /\ MalformedPlayerPosition
    /\ Len(incomingData.table_entries) = 2
    /\ incomingData.table_entries[2].is_player
    /\ getPlayerPosition(incomingData) = Num(3)
    /\ Len(telemetryTable) = 2
    /\ ~raised

-----------------------------------------------------------------------------
(* Properties of PaceComparison.update, checked under SpecPace *)

PaceUpdated == paceData # Null

Sides == {"prev", "next"}

\* Slot 0 is the lap delta, slots 1..3 are the sector deltas.
Slots == 0..3

Neighbour(side) == IF side = "prev" THEN paceData.prev ELSE paceData.next

SlotElement(side, k) ==
    IF side = "prev"
    THEN (IF k = 0 THEN prevDelta ELSE prevSectors[k])
    ELSE (IF k = 0 THEN nextDelta ELSE nextSectors[k])

\* The time of a driver that the subtraction of slot k reads.
SlotTime(driver, k) == IF k = 0 THEN driver.lap_ms ELSE SectorMs(driver, k)

BothTimesPresent(side, k) ==
    /\ SlotTime(paceData.player, k) # Null
    /\ SlotTime(Neighbour(side), k) # Null

\* The four keys #isDataAvailable reads are all non-null.
CheckedTimesPresent(driver) ==
    \A key \in {"last_ms", "sector_1_ms", "sector_2_ms", "sector_3_ms"} :
        driver[key] # Null

\* C9: for each neighbour and each slot, a delta is shown only if both the
\* player's and the neighbour's time read by that slot's subtraction are
\* non-null; in every other case the slot shows the placeholder '---'.
C9_DeltaOnlyFromPresentTimes ==
    PaceUpdated =>
        \A side \in Sides, k \in Slots :
            ~BothTimesPresent(side, k) =>
                SlotElement(side, k).textContent = "---"

\* C10, as claimed: a null time affects only its own slot: a slot shows the
\* placeholder exactly when one of the two times it reads is null, and every
\* other slot of that neighbour still shows its delta.
C10_NullBlanksOnlyItsOwnSlot ==
    PaceUpdated =>
        \A side \in Sides, k \in Slots :
            BothTimesPresent(side, k) <=>
                SlotElement(side, k).textContent # "---"

\* C10, amended: a null among the times #isDataAvailable reads (last-ms,
\* sector-1-ms, sector-2-ms, sector-3-ms) blanks a whole neighbour: the four
\* slots of a neighbour show their deltas exactly when those four times are
\* non-null for both the player and that neighbour, and all four show the
\* placeholder otherwise; the other neighbour's slots are not affected.
C10_NullBlanksTheWholeNeighbour ==
    PaceUpdated =>
        \A side \in Sides :
            IF CheckedTimesPresent(paceData.player)
                   /\ CheckedTimesPresent(Neighbour(side))
            THEN \A k \in Slots :
                     /\ SlotElement(side, k).textContent # "---"
                     /\ SlotElement(side, k).textContent =
                            formatDelta(Minus(SlotTime(paceData.player, k),
                                              SlotTime(Neighbour(side), k)))
            ELSE \A k \in Slots : SlotElement(side, k).textContent = "---"

\* C10 witness: only the previous driver's third sector is null; its four
\* slots show the placeholder, the next driver's four slots show deltas.
C10_Witness ==
    /\ PaceUpdated
    /\ paceData.player = PlayerTimes
    /\ paceData.prev = With(MixedTimes(Str("Hamilton")), "sector_3_ms", Null)
    /\ paceData.next = MixedTimes(Str("Verstappen"))
    /\ \A k \in Slots : SlotElement("prev", k).textContent = "---"
    /\ nextDelta.textContent = "-1.200"
    /\ nextSectors[1].textContent = "+0.400"
    /\ nextSectors[2].textContent = "-0.000"
    /\ nextSectors[3].textContent = "-1.600"

\* The delta of slot k, as the subtraction of the slot computes it.
SlotDelta(side, k) ==
    Minus(SlotTime(paceData.player, k), SlotTime(Neighbour(side), k))

\* update writes the deltas of a neighbour: the player and the neighbour have
\* the four times #isDataAvailable reads.
ShowsDeltas(side) ==
    /\ CheckedTimesPresent(paceData.player)
    /\ CheckedTimesPresent(Neighbour(side))

ColourClasses(element) == element.classList \cap {"text-danger", "text-success"}

\* C11: every delta shown is the player's time minus the neighbour's time, and
\* its slot is classified by the sign: text-danger alone for a delta > 0,
\* text-success alone for a delta < 0, neither class for a delta of 0; no slot
\* ever carries both classes.
C11_DeltaClassifiedBySign ==
    PaceUpdated =>
        \A side \in Sides, k \in Slots :
            /\ ColourClasses(SlotElement(side, k))
                   # {"text-danger", "text-success"}
            /\ ShowsDeltas(side) =>
                   LET d == SlotDelta(side, k).n
                   IN  /\ SlotElement(side, k).textContent =
                              (IF d > 0 THEN "+" ELSE "-") \o ToFixed3(Abs(d))
                       /\ (d > 0) =>
                              ColourClasses(SlotElement(side, k)) = {"text-danger"}
                       /\ (d < 0) =>
                              ColourClasses(SlotElement(side, k)) = {"text-success"}
                       /\ (d = 0) => ColourClasses(SlotElement(side, k)) = {}

\* C11 witness: the player's lap of 90000 ms against the next driver's 91200 ms
\* shows -1.200 flagged faster; the first sector (+0.400) is flagged slower and
\* the equal second sector carries no class.
C11_Witness ==
    /\ PaceUpdated
    /\ paceData.player.lap_ms = Num(90000)
    /\ paceData.next.lap_ms = Num(91200)
    /\ nextDelta = Element("-1.200", {"text-success"})
    /\ nextSectors[1] = Element("+0.400", {"text-danger"})
    /\ nextSectors[2] = Element("-0.000", {})

NeitherNeighbourValid ==
    /\ PaceUpdated
    /\ ~CheckedTimesPresent(paceData.prev)
    /\ ~CheckedTimesPresent(paceData.next)

AllSlotsBlank ==
    \A side \in Sides, k \in Slots : SlotElement(side, k).textContent = "---"

\* C12, as claimed: whenever neither neighbour has valid data, update logs the
\* anomaly and leaves all eight slots showing the placeholder, whether or not
\* the player's own data is available.
C12_BothMissingIsLogged ==
    NeitherNeighbourValid => (paceLogged /\ AllSlotsBlank)

\* C12, amended: whenever neither neighbour has valid data, all eight slots
\* show the placeholder, and the anomaly is logged exactly when the player's
\* own data is available; without it update returns before the log statement.
C12_BothMissingIsLoggedForValidPlayer ==
    NeitherNeighbourValid =>
        /\ AllSlotsBlank
        /\ paceLogged <=> CheckedTimesPresent(paceData.player)

\* C12 witness: the player's last-ms is null and both neighbours miss a time:
\* eight placeholders and nothing logged.
C12_Witness ==
    /\ NeitherNeighbourValid
    /\ paceData.player.last_ms = Null
    /\ paceData.prev.last_ms = Null
    /\ paceData.next.sector_1_ms = Null
    /\ AllSlotsBlank
    /\ ~paceLogged

\* What a newly constructed overlay shows after update(d) as its first call.
ShownByNewOverlay(d) ==
    LET blank == Element("", {})
        blanks == [i \in 1..3 |-> blank]
    IN  << IF d.prev.name # Null THEN getDriverName(d.prev) ELSE "",
           IF d.next.name # Null THEN getDriverName(d.next) ELSE "",
           lapElement(blank, d, d.prev),
           lapElement(blank, d, d.next),
           sectorElements(blanks, d, d.prev),
           sectorElements(blanks, d, d.next) >>

Shown ==
    << prevDriver, nextDriver, prevDelta, nextDelta, prevSectors, nextSectors >>

\* C13: after update(d) returns, the two names, the eight slot texts and the
\* eight slot colour classes are determined by d alone: an overlay with earlier
\* updates shows what a new overlay shows after the same update.
C13_ShownStateDeterminedByLastUpdate ==
    PaceUpdated => Shown = ShownByNewOverlay(paceData)

-----------------------------------------------------------------------------
(* Further properties of updateDashboard, checked under Spec *)

\* The columns of the cells of a rendered row, in order.
RowColumns(row) == [i \in 1..Len(row.cells) |-> row.cells[i].column]

\* C14: after any sequence of updateDashboard calls, if the last call completed
\* the table body holds exactly one row per entry of
\* getRelevantRaceTableRows(last snapshot), in that order: no row of an earlier
\* snapshot remains and rows never accumulate.
C14_TableIsTheLastSnapshotsRows ==
    (Updated /\ ~raised) =>
        RenderedData =
            getRelevantRaceTableRows(incomingData, g_pref_numAdjacentCars)

\* C14 witness: the last snapshot has two entries, the window around the
\* player holds one of them, and the table holds that one row.
C14_Witness ==
    /\ Updated /\ ~raised
    /\ Len(incomingData.table_entries) = 2
    /\ ~incomingData.is_spectating /\ ~incomingData.race_ended
    /\ g_pref_numAdjacentCars = 0
    /\ Len(telemetryTable) = 1
    /\ telemetryTable[1].data.is_player

\* C20: for every f1-game-year, 23 included, populate completes without raising
\* and leaves on each rendered row the same 10 cells in the same order.
C20_PopulateCompletesForEveryYear ==
    (Updated /\ getRelevantRaceTableRows(incomingData, g_pref_numAdjacentCars)
                    # << >>) =>
        /\ ~raised
        /\ telemetryTable # << >>
        /\ \A i \in 1..Len(telemetryTable) :
               RowColumns(telemetryTable[i]) = Columns

-----------------------------------------------------------------------------
(* Properties of LapTimeTableWidget.update, checked under SpecLaps *)

LapsUpdated == lapTimeHistory # Undefined /\ lapTimeHistory # Null

LapCount == Len(lapTimeHistory.lap_time_history_data)

\* C15: for a history of n laps the table holds min(5, n) rows, for the laps
\* numbered n, n-1, ... in that order (lap number = history index + 1), each
\* showing the times of its lap: never a lap older than the five most recent.
C15_LatestFiveLapsNewestFirst ==
    LapsUpdated =>
        /\ Len(lapTimeTable) = Min(5, LapCount)
        /\ \A r \in 1..Len(lapTimeTable) :
               LET lap == LapCount - r + 1
                   ms  == lapTimeHistory.lap_time_history_data[lap].lap_time_in_ms
               IN  /\ lapTimeTable[r].lapNumber = lap
                   /\ lap > LapCount - 5
                   /\ lapTimeTable[r].timeCells[1].textContent =
                          (IF ms = 0 THEN "---" ELSE ToString(ms))

\* C15 witness: a history of six laps shows the laps 6, 5, 4, 3, 2.
C15_Witness ==
    /\ LapsUpdated
    /\ LapCount = 6
    /\ [r \in 1..Len(lapTimeTable) |-> lapTimeTable[r].lapNumber]
           = << 6, 5, 4, 3, 2 >>

\* What column c (1: lap, 2..4: sectors) of a lap reads.
ColumnTime(lapData, c) ==
    CASE c = 1 -> lapData.lap_time_in_ms
      [] c = 2 -> lapData.sector_1_time_in_ms
      [] c = 3 -> lapData.sector_2_time_in_ms
      [] c = 4 -> lapData.sector_3_time_in_ms

ColumnGlobalBest(c) ==
    CASE c = 1 -> lapTimeHistory.global_fastest_lap_ms
      [] c = 2 -> lapTimeHistory.global_fastest_s1_ms
      [] c = 3 -> lapTimeHistory.global_fastest_s2_ms
      [] c = 4 -> lapTimeHistory.global_fastest_s3_ms

ColumnPersonalBest(c) ==
    CASE c = 1 -> lapTimeHistory.fastest_lap_number
      [] c = 2 -> lapTimeHistory.fastest_s1_lap_number
      [] c = 3 -> lapTimeHistory.fastest_s2_lap_number
      [] c = 4 -> lapTimeHistory.fastest_s3_lap_number

\* Bit c-1 of the validity flags: masks 1, 2, 4, 8.
ValidityBitSet(lapData, c) ==
    (lapData.lap_valid_bit_flags \div (2 ^ (c - 1))) % 2 = 1

RowLapData(r) == lapTimeHistory.lap_time_history_data[lapTimeTable[r].lapNumber]

\* The class of a cell by the precedence purple > green > red > none, where
\* isFastest says whether the purple rule matches.
ClassByPrecedence(r, c, isFastest) ==
    IF isFastest THEN {"text-purple"}
    ELSE IF lapTimeTable[r].lapNumber = ColumnPersonalBest(c)
    THEN {"text-success"}
    ELSE IF ~ValidityBitSet(RowLapData(r), c) THEN {"text-danger"}
    ELSE {}

\* C16, as claimed: each time cell carries the class of the first matching
\* rule: time equal to the global fastest time -> purple; else lap number equal
\* to the personal-best lap number of the column -> green; else validity bit
\* clear -> red; else no class.
C16_FirstMatchingRuleColours ==
    LapsUpdated =>
        \A r \in 1..Len(lapTimeTable), c \in 1..4 :
            lapTimeTable[r].timeCells[c].classList =
                ClassByPrecedence(r, c,
                    ColumnTime(RowLapData(r), c) = ColumnGlobalBest(c))

\* C16, amended: the purple rule matches only a global fastest time that is
\* set (not 0): a cell whose time and global fastest time are both 0 is not
\* purple and falls to the green, red and no-class rules.
C16_FirstMatchingRuleWithSetGlobalBest ==
    LapsUpdated =>
        \A r \in 1..Len(lapTimeTable), c \in 1..4 :
            lapTimeTable[r].timeCells[c].classList =
                ClassByPrecedence(r, c,
                    /\ ColumnGlobalBest(c) # 0
                    /\ ColumnTime(RowLapData(r), c) = ColumnGlobalBest(c))

\* C16 witness: a lap time equal to the global fastest lap time, on the lap
\* that is the driver's personal best and is flagged invalid, is purple alone.
C16_Witness ==
    /\ LapsUpdated
    /\ LapCount >= 1
    /\ RowLapData(1).lap_time_in_ms = 80000
    /\ ColumnGlobalBest(1) = 80000
    /\ ColumnPersonalBest(1) = lapTimeTable[1].lapNumber
    /\ ~ValidityBitSet(RowLapData(1), 1)
    /\ lapTimeTable[1].timeCells[1].classList = {"text-purple"}

-----------------------------------------------------------------------------
(* Properties of the three query methods, checked under SpecCalls *)

PlayerDone == playerPc = "done"

\* C17: getRelevantRaceTableRows is deterministic: the rows a call returns are
\* those a call with the same snapshot, mode flags and g_pref_numAdjacentCars
\* returns on a renderer that has processed nothing, whatever snapshots this
\* renderer processed before the call.
C17_RowsDependOnArgumentsOnly ==
    RowsDone =>
        relevantRows =
            IF Len(rowsData.table_entries) = 0 THEN << >>
            ELSE IF rowsData.is_spectating \/ rowsData.race_ended
            THEN rowsData.table_entries
            ELSE LET w == getAdjacentPositions(getPlayerPosition(rowsData),
                                               Len(rowsData.table_entries),
                                               rowsPref)
                 IN  Slice(rowsData.table_entries,
                           MinusOne(At(w, 0)), At(w, Len(w) - 1))

\* C17 witness: the renderer last processed a snapshot without rows; a call on
\* the three-row snapshot with radius 0 returned the player's row alone.
C17_Witness ==
    /\ RowsDone
    /\ Updated
    /\ incomingData.table_entries = << >>
    /\ Len(rowsData.table_entries) = 3
    /\ ~rowsData.is_spectating
    /\ rowsPref = 0
    /\ Len(relevantRows) = 1
    /\ relevantRows[1].is_player

\* A step in which one of the three methods runs.
QueryStep ==
    \/ rowsPc = "call" /\ rowsPc' = "done"
    \/ playerPc = "call" /\ playerPc' = "done"
    \/ windowPc = "call" /\ windowPc' = "done"

\* C18: getRelevantRaceTableRows, getPlayerPosition and getAdjacentPositions
\* have no side effects: a call leaves the snapshot it was given (length,
\* order and contents of table-entries), indexByPosition and the rendered
\* table unchanged.
C18_QueriesHaveNoSideEffects ==
    [][QueryStep =>
          /\ rowsData' = rowsData
          /\ playerData' = playerData
          /\ indexByPosition' = indexByPosition
          /\ telemetryTable' = telemetryTable
          /\ incomingData' = incomingData]_vars

\* C18 witness: on a renderer showing three rows, with indexByPosition set,
\* getRelevantRaceTableRows has returned the middle row of three,
\* getPlayerPosition the position 2 and getAdjacentPositions(1, 2, 0) the
\* array [1].
C18_Witness ==
    /\ RowsDone /\ PlayerDone /\ WindowDone
    /\ indexByPosition = Arr(<< 2, 1, 0 >>)
    /\ Len(telemetryTable) = 3
    /\ Len(rowsData.table_entries) = 3
    /\ Len(relevantRows) = 1
    /\ returnedPosition = Num(2)
    /\ position = Num(1) /\ total_cars = 2 /\ num_adjacent_cars = 0
    /\ adjacentPositions = << 1 >>

\* C19: for a snapshot with zero table entries getRelevantRaceTableRows
\* returns an empty list, and getAdjacentPositions(position, 0, r) returns an
\* empty range for every position and r.
C19_NoEntriesGiveEmptyResults ==
    /\ (RowsDone /\ Len(rowsData.table_entries) = 0) => relevantRows = << >>
    /\ (WindowDone /\ total_cars = 0) => adjacentPositions = << >>

\* C19 witness: getRelevantRaceTableRows on a snapshot without rows and
\* getAdjacentPositions(1, 0, 1) have both returned the empty array.
C19_Witness ==
    /\ RowsDone /\ rowsData.table_entries = << >> /\ relevantRows = << >>
    /\ WindowDone
    /\ position = Num(1) /\ total_cars = 0 /\ num_adjacent_cars = 1
    /\ adjacentPositions = << >>

-----------------------------------------------------------------------------
(* Further properties of the window, the overlay and the dashboard *)

\* The player's row reports the position of its place in the list, as in a
\* snapshot ordered by position.
PlayerInPlace(entries) ==
    /\ HasPlayer(entries)
    /\ entries[FirstPlayer(entries)].position = Num(FirstPlayer(entries))

\* C21: whenever windowing applies (not spectating, race not ended, a player
\* row with its position in 1..N), the rows getRelevantRaceTableRows returns
\* include the player's own row, for every N >= 1 and every
\* g_pref_numAdjacentCars >= 0.
C21_WindowHoldsThePlayersRow ==
    LET entries == rowsData.table_entries
    IN  (RowsDone /\ Windowing /\ PlayerInPlace(entries)) =>
            \E i \in 1..Len(relevantRows) :
                relevantRows[i] = entries[FirstPlayer(entries)]

\* The tests of the two corrections, in the order the call makes them.
ShiftRightFires ==
    InitialBounds(position.n, total_cars, num_adjacent_cars).lower_bound < 1

ShiftLeftFires ==
    ShiftRight(InitialBounds(position.n, total_cars, num_adjacent_cars))
        .upper_bound > total_cars

\* C22: in a single call of getAdjacentPositions with a valid position,
\* total_cars >= 1 and num_adjacent_cars >= 0, at most one of the two bound
\* corrections is applied: shift right and shift left never both fire.
C22_AtMostOneCorrection ==
    (WindowDone /\ total_cars >= 1 /\ ValidCall) =>
        ~(ShiftRightFires /\ ShiftLeftFires)

\* C23: after any sequence of update calls, a delta slot that shows the
\* placeholder '---' carries neither text-danger nor text-success.
C23_PlaceholderHasNoColour ==
    PaceUpdated =>
        \A side \in Sides, k \in Slots :
            (SlotElement(side, k).textContent = "---") =>
                ColourClasses(SlotElement(side, k)) = {}

\* C24: after every updateDashboard(s), indexByPosition is the list of the
\* driver indices of all N table entries of s in snapshot order, whatever the
\* visible window and the spectating and race-ended flags are, and nothing of
\* the previous snapshot's list remains.
C24_IndexByPositionCoversAllEntries ==
    Updated =>
        indexByPosition =
            Arr([i \in 1..Len(incomingData.table_entries) |->
                    incomingData.table_entries[i].index])

\* C24 witness: two entries, of which the window shows one; indexByPosition
\* lists both drivers.
C24_Witness ==
    /\ Updated /\ ~raised
    /\ ~incomingData.is_spectating /\ ~incomingData.race_ended
    /\ Len(incomingData.table_entries) = 2
    /\ Len(telemetryTable) = 1
    /\ indexByPosition = Arr(<< 1, 0 >>)

\* The cell of a column in a rendered row.
CellOf(row, column) ==
    row.cells[CHOOSE i \in 1..Len(row.cells) : row.cells[i].column = column]

\* C25: after updateDashboard(s) returns, in every row rendered for s the cell
\* of the FUEL column is hidden exactly when live-data is false, as the column
\* header is.
C25_FuelCellsFollowTheHeader ==
    (Updated /\ ~raised) =>
        \A r \in 1..Len(telemetryTable) :
            /\ CellOf(telemetryTable[r], "fuel").hidden = ~incomingData.live_data
            /\ CellOf(telemetryTable[r], "fuel").hidden = columnHidden["FUEL"]

-----------------------------------------------------------------------------
(* Further properties of LapTimeTableWidget.update, checked under SpecLaps *)

\* The purple or the green rule applies to the cell.
FastestOrPersonalBest(r, c) ==
    \/ /\ ColumnGlobalBest(c) # 0
       /\ ColumnTime(RowLapData(r), c) = ColumnGlobalBest(c)
    \/ lapTimeTable[r].lapNumber = ColumnPersonalBest(c)

\* C27: the validity of each time cell is read from its own bit of
\* lap-valid-bit-flags only (lap: 1, sector 1: 2, sector 2: 4, sector 3: 8,
\* bit set = valid): for every flags value 0..15, a cell that is neither
\* global-fastest nor personal-best is red exactly when its own bit is clear,
\* whatever the other three bits are.
C27_RedExactlyWhenOwnBitClear ==
    LapsUpdated =>
        \A r \in 1..Len(lapTimeTable), c \in 1..4 :
            ~FastestOrPersonalBest(r, c) =>
                /\ ("text-danger" \in lapTimeTable[r].timeCells[c].classList)
                       <=> ~ValidityBitSet(RowLapData(r), c)
                /\ lapTimeTable[r].timeCells[c].classList \subseteq {"text-danger"}

\* C27 witness: the latest lap has the flags 5 (lap and sector 2 valid, sectors
\* 1 and 3 not); its sector-1 cell is red and its sector-2 cell is not, neither
\* being fastest or personal best.
C27_Witness ==
    /\ LapsUpdated
    /\ LapCount >= 1
    /\ RowLapData(1).lap_valid_bit_flags = 5
    /\ ~FastestOrPersonalBest(1, 2) /\ ~FastestOrPersonalBest(1, 3)
    /\ lapTimeTable[1].timeCells[2].classList = {"text-danger"}
    /\ lapTimeTable[1].timeCells[3].classList = {}

-----------------------------------------------------------------------------
(* Properties of renderTelemetryRow, checked under SpecRender *)

\* The marks the claim gives the row of the call.
ClaimedRowMarks ==
    (IF renderData.is_player THEN {"player-row"} ELSE {})
    \cup (IF renderLive /\ renderData.dnf_status = "DNF" THEN {"dnf-row"} ELSE {})
    \cup (IF renderLive /\ renderData.dnf_status # "DNF" /\ renderData.drs
          THEN {"drs-row"} ELSE {})

\* C26: renderTelemetryRow returns a row marked player-row exactly when
\* is-player is true, with dnf-row or drs-row only in live-data mode, never
\* both, DNF taking precedence over DRS, and with neither outside live-data
\* mode.
C26_RowMarks ==
    (renderPc # "call" /\ renderPc # "off") =>
        /\ renderPc = "done"
        /\ renderedRow # Null
        /\ renderedRow.classList = ClaimedRowMarks

\* The marks of the rows of the calls that return.
RowMarksWhenReturned ==
    (renderPc = "done") => renderedRow.classList = ClaimedRowMarks

-----------------------------------------------------------------------------
(* Properties of DriverModalDataPopulator, checked under SpecModal *)

\* The positions of the entries of per-lap-info whose lap number is not 0.
NonZeroLaps ==
    { i \in 1..Len(modalData.per_lap_info) :
        modalData.per_lap_info[i].lap_number # 0 }

\* C29: the ERS history table skips lap 0: for per-lap-info with more than one
\* entry it holds exactly one row per entry whose lap number is not 0, each
\* starting with that lap number, and no row, not even an empty one, for lap
\* 0; when lap 0 is the only entry, or there is no entry, it holds the single
\* "ERS data not available" row.
C29_ErsTableSkipsLapZero ==
    (contentPc = "done") =>
        IF Len(modalData.per_lap_info) > 1
        THEN /\ Len(ersTable) = Cardinality(NonZeroLaps)
             /\ \A r \in 1..Len(ersTable) : ersTable[r] # << >>
             /\ \A i \in NonZeroLaps :
                    \E r \in 1..Len(ersTable) :
                        /\ Len(ersTable[r]) = 6
                        /\ ersTable[r][1] =
                               ToString(modalData.per_lap_info[i].lap_number)
        ELSE (Len(modalData.per_lap_info) = 0
              \/ modalData.per_lap_info[1].lap_number = 0)
                 => ersTable = << ErsNotAvailable >>

\* Without lap 0 among the entries the table is as described.
ErsTableWithoutLapZero ==
    (contentPc = "done"
     /\ Len(modalData.per_lap_info) > 0
     /\ Cardinality(NonZeroLaps) = Len(modalData.per_lap_info)) =>
        /\ Len(ersTable) = Len(modalData.per_lap_info)
        /\ \A r \in 1..Len(ersTable) :
               /\ Len(ersTable[r]) = 6
               /\ ersTable[r][1] =
                      ToString(modalData.per_lap_info[r].lap_number)

\* C30: when the driver data has no tyre-wear-predictions key, createNavTabs
\* produces no nav button and createTabContent no tab pane for the Tyre Wear
\* Prediction tab, so every nav button has a populated pane.
C30_NoTyreWearTabWithoutPredictions ==
    (navPc = "done" /\ contentPc = "done"
     /\ modalData.tyre_wear_predictions = Undefined) =>
        /\ \A b \in 1..Len(navTabs) :
               navTabs[b].controls # "tyre-wear-prediction"
        /\ \A t \in 1..Len(tabContent) :
               tabContent[t].id # "tyre-wear-prediction"
        /\ \A b \in 1..Len(navTabs) :
               \E t \in 1..Len(tabContent) :
                   /\ tabContent[t].id = navTabs[b].controls
                   /\ tabContent[t].populated

\* With the key every nav button has a populated pane.
EveryButtonHasAPopulatedPane ==
    (navPc = "done" /\ contentPc = "done"
     /\ modalData.tyre_wear_predictions # Undefined) =>
        \A b \in 1..Len(navTabs) :
            \E t \in 1..Len(tabContent) :
                /\ tabContent[t].id = navTabs[b].controls
                /\ tabContent[t].populated

====
